---- MODULE Spec2Model ----
(***************************************************************************)
(* Model of the time-series helpers of lisa/datautils.py.                  *)
(*                                                                         *)
(* A table (pandas DataFrame / Series) is a record                         *)
(*     [columns |-> <<names>>, rows |-> <<[t |-> index value, v |-> cells]>>] *)
(* whose rows are kept in index order.  Index values and durations are     *)
(* exact integers: one unit stands for one tenth of the float timestamps   *)
(* of the docstrings (16.5 is 165), so arithmetic is exact.                *)
(* The result of a call is [err |-> "ok" or the exception raised,          *)
(* data |-> the table returned].                                           *)
(***************************************************************************)
EXTENDS Integers, Sequences, FiniteSets, TLC

VARIABLES
    df,            \* the table object handed to the call (its current content)
    isFloat,       \* TRUE when df.index is a Float64Index
    other,         \* a second table object (df_merge's df_list[1])
    drop_columns,  \* the caller's drop_columns list object (its current content)
    call,          \* the arguments of the call, as supplied
    out,           \* result of the call
    out2,          \* result of the follow-up call
    pc             \* "ready" -> "done" -> "redone"

vars == <<df, isFloat, other, drop_columns, call, out, out2, pc>>

(***************************************************************************)
(* Bounds of the enumerated inputs.                                        *)
(***************************************************************************)
MaxTime == 4
MaxRows == 3
MaxDelta == 2
MaxState == 1

\* Python's None, for an optional index value or list
None == -1000

\* get_loc's failure (KeyError / IndexError, both LookupError), as a position
NotFound == -1

Min(a, b) == IF a <= b THEN a ELSE b
Max(a, b) == IF a >= b THEN a ELSE b
SetMax(S) == CHOOSE x \in S : \A y \in S : y <= x
SetMin(S) == CHOOSE x \in S : \A y \in S : x <= y
Abs(x) == IF x < 0 THEN -x ELSE x
Last(s) == s[Len(s)]

RECURSIVE SumSeq(_)
SumSeq(s) == IF s = <<>> THEN 0 ELSE s[1] + SumSeq(Tail(s))

(***************************************************************************)
(* Tables                                                                  *)
(***************************************************************************)
Table(columns, rows) == [columns |-> columns, rows |-> rows]
Index(data) == [i \in 1..Len(data.rows) |-> data.rows[i].t]
IndexSet(data) == {data.rows[i].t : i \in 1..Len(data.rows)}
Empty(data) == data.rows = <<>>
Column(data, c) == [i \in 1..Len(data.rows) |-> data.rows[i].v[c]]
HasColumn(data, c) == \E i \in 1..Len(data.columns) : data.columns[i] = c

NoTable == Table(<<>>, <<>>)
Ok(data) == [err |-> "ok", data |-> data]
Raise(e) == [err |-> e, data |-> NoTable]

\* strictly increasing index sequences of at most n values drawn from S
Indexes(S, n) ==
    {s \in UNION {[1..k -> S] : k \in 0..n} :
        \A i \in 1..(Len(s) - 1) : s[i] < s[i + 1]}

(***************************************************************************)
(* _data_window                                                            *)
(***************************************************************************)
Methods == {"inclusive", "exclusive", "nearest", "pre", "post"}

\* lines 523-541 with the pair of 'exclusive' the other way round
FillMethods_Outward(method) ==
    CASE method = "inclusive" -> <<"ffill", "bfill">>
      [] method = "exclusive" -> <<"ffill", "bfill">>
      [] method = "nearest"   -> <<"nearest", "nearest">>
      [] method = "pre"       -> <<"ffill", "ffill">>
      [] method = "post"      -> <<"bfill", "bfill">>

\* lines 523-541: the (start, end) get_loc methods of an edge method
FillMethods(method) ==
    CASE method = "inclusive" -> <<"ffill", "bfill">>
      [] method = "exclusive" -> <<"bfill", "ffill">>
      [] method = "nearest"   -> <<"nearest", "nearest">>
      [] method = "pre"       -> <<"ffill", "ffill">>
      [] method = "post"      -> <<"bfill", "bfill">>

\* pandas Index.get_loc(x, method=m) on a sorted unique index: 0-based position
get_loc(index, x, m) ==
    LET n == Len(index)
        le == {i \in 1..n : index[i] <= x}
        ge == {i \in 1..n : index[i] >= x}
        left == IF le = {} THEN NotFound ELSE SetMax(le) - 1
        right == IF ge = {} THEN NotFound ELSE SetMin(ge) - 1
    IN  CASE m = "ffill" -> left
          [] m = "bfill" -> right
          [] m = "nearest" ->
                IF n = 0 THEN NotFound
                ELSE IF right = NotFound THEN left
                ELSE IF left = NotFound THEN right
                ELSE IF x - index[left + 1] < index[right + 1] - x THEN left
                ELSE right

\* lines 515-519 alone: each bound clamped on its own, no collapse
ClipWindow_Independent(index, window) ==
    LET first == index[1]
        last == index[Len(index)]
        start == IF window[1] = None THEN first ELSE window[1]
        end == IF window[2] = None THEN last ELSE window[2]
    IN  <<IF start <= first THEN first ELSE start,
          IF end >= last THEN last ELSE end>>

\* lines 494-521: the window clamped to the extent of a non-empty index
ClipWindow(index, window) ==
    LET first == index[1]
        last == index[Len(index)]
        start == IF window[1] = None THEN first ELSE window[1]
        end == IF window[2] = None THEN last ELSE window[2]
    IN  IF start <= first /\ end <= first THEN <<first, first>>
        ELSE IF start >= last /\ end >= last THEN <<last, last>>
        ELSE <<IF start <= first THEN first ELSE start,
               IF end >= last THEN last ELSE end>>

\* data[start:end] on a Float64Index: label slicing, both ends inclusive
FloatSlice(data, start, end) ==
    Table(data.columns,
          SelectSeq(data.rows,
                    LAMBDA r : /\ (start = None \/ r.t >= start)
                               /\ (end = None \/ r.t <= end)))

\* data.iloc[a:b] with 0-based positions, a possibly None
iloc(data, a, b) ==
    Table(data.columns, SubSeq(data.rows, (IF a = None THEN 0 ELSE a) + 1, b))

\* lines 546-552: the positional lookup of both bounds and the slice
LocSlice(data, window, fill) ==
    LET index == Index(data)
        lo == IF window[1] # None THEN get_loc(index, window[1], fill[1]) ELSE None
        hi == IF window[2] # None THEN get_loc(index, window[2], fill[2]) ELSE None
    IN  IF lo = NotFound \/ hi = NotFound THEN Raise("LookupError")
        ELSE IF hi = None THEN Raise("TypeError")
        ELSE Ok(iloc(data, lo, hi + 1))

\* the bounds for which lines 546-549 call index.get_loc
Lookups(isF, window, method, clip_window) ==
    IF method = "inclusive" /\ isF THEN {}
    ELSE {b \in {1, 2} : clip_window \/ window[b] # None}

_data_window(data, isF, window, method, clip_window) ==
    IF clip_window /\ Empty(data) THEN Raise("IndexError")
    ELSE LET w == IF clip_window THEN ClipWindow(Index(data), window) ELSE window
         IN  IF method = "inclusive" /\ isF THEN Ok(FloatSlice(data, w[1], w[2]))
             ELSE IF method \notin Methods THEN Raise("ValueError")
             ELSE LocSlice(data, w, FillMethods(method))

(***************************************************************************)
(* _data_refit_index                                                       *)
(***************************************************************************)
\* lines 97-111: the index of the windowed data with its ends overwritten
SetIndexEnds(data, start, end) ==
    LET n == Len(data.rows)
        t1 == [i \in 1..n |-> IF end # None /\ i = n THEN end ELSE data.rows[i].t]
        t2 == [i \in 1..n |-> IF start # None /\ i = 1 THEN start ELSE t1[i]]
    IN  IF n = 0 /\ (start # None \/ end # None) THEN Raise("IndexError")
        ELSE Ok(Table(data.columns,
                      [i \in 1..n |-> [data.rows[i] EXCEPT !.t = t2[i]]]))

_data_refit_index(data, isF, start, end, method) ==
    IF Empty(data) THEN Ok(data)
    ELSE LET w == _data_window(data, isF, <<start, end>>, method, TRUE)
         IN  IF w.err # "ok" THEN w ELSE SetIndexEnds(w.data, start, end)

(***************************************************************************)
(* Window specification: df_window / series_window and df_refit_index      *)
(***************************************************************************)
\* the tables windowed: every index of at most MaxRows values in 0..MaxTime
WindowTables ==
    {Table(<<"state">>, [i \in 1..Len(s) |-> [t |-> s[i], v |-> [state |-> i % 2]]]) :
        s \in Indexes(0..MaxTime, MaxRows)}

Bounds == {None} \cup 0..MaxTime
MethodArgs == Methods \cup {"bogus"}

NoCall == [op |-> "none"]

InitWindow ==
    /\ df \in WindowTables
    /\ isFloat \in BOOLEAN
    /\ other = NoTable
    /\ drop_columns = <<>>
    /\ call = NoCall
    /\ out = Ok(NoTable)
    /\ out2 = Ok(NoTable)
    /\ pc = "ready"

\* df_window(df, window, method, clip_window)
df_window ==
    /\ pc = "ready"
    /\ \E start \in Bounds, end \in Bounds, method \in MethodArgs, clip \in BOOLEAN :
        /\ call' = [op |-> "df_window", df |-> df, start |-> start, end |-> end,
                    method |-> method, clip_window |-> clip]
        /\ out' = _data_window(df, isFloat, <<start, end>>, method, clip)
    /\ pc' = "done"
    /\ UNCHANGED <<df, isFloat, other, drop_columns, out2>>

\* df_window applied again to the table it returned, with the same arguments
df_window_again ==
    /\ pc = "done"
    /\ call.op = "df_window"
    /\ out.err = "ok"
    /\ out2' = _data_window(out.data, isFloat, <<call.start, call.end>>,
                            call.method, call.clip_window)
    /\ pc' = "redone"
    /\ UNCHANGED <<df, isFloat, other, drop_columns, call, out>>

\* df_refit_index(df, start, end, method)
df_refit_index ==
    /\ pc = "ready"
    /\ \E start \in Bounds, end \in Bounds, method \in MethodArgs :
        /\ call' = [op |-> "df_refit_index", df |-> df, start |-> start, end |-> end,
                    method |-> method, clip_window |-> TRUE]
        /\ out' = _data_refit_index(df, isFloat, start, end, method)
    /\ pc' = "done"
    /\ UNCHANGED <<df, isFloat, other, drop_columns, out2>>

NextWindow == df_window \/ df_window_again \/ df_refit_index

Spec == InitWindow /\ [][NextWindow]_vars

(***************************************************************************)
(* Claims about windowing and refitting                                    *)
(***************************************************************************)
\* the window of the call, a None bound read as the extent of the table
WinStart == IF call.start = None THEN call.df.rows[1].t ELSE call.start
WinEnd == IF call.end = None THEN Last(call.df.rows).t ELSE call.end

\* C3 (as claimed): refitting a non-empty table to a window start <= end that
\* lies within or overlaps the index range raises nothing, and the result's
\* first index value is start (when given) and its last index value is end
\* (when given; in a single-row result start takes precedence over end, the
\* rule of lines 102-105, so end is only required of a longer result).
C3_RefitExact ==
    ( /\ pc = "done"
      /\ call.op = "df_refit_index"
      /\ call.method = "inclusive"
      /\ ~Empty(call.df)
      /\ WinStart <= WinEnd
      /\ WinStart <= Last(call.df.rows).t
      /\ WinEnd >= call.df.rows[1].t )
    => /\ out.err = "ok"
       /\ ~Empty(out.data)
       /\ call.start # None => out.data.rows[1].t = call.start
       /\ (call.end # None /\ (call.start = None \/ Len(out.data.rows) > 1))
            => Last(out.data.rows).t = call.end

\* C5 (as claimed): windowing or refitting an empty table returns an empty
\* table, whatever the window, the edge method and clip_window.
C5_EmptyInputNotAnError ==
    ( /\ pc = "done"
      /\ call.op \in {"df_window", "df_refit_index"}
      /\ call.method \in Methods
      /\ Empty(call.df) )
    => (out.err = "ok" /\ Empty(out.data))

\* C6 (as claimed): when df_window returned W, df_window of W with the same
\* window, method and clip_window returns W again.
C6_WindowIdempotent ==
    ( /\ pc = "redone"
      /\ call.op = "df_window"
      /\ (call.start = None \/ call.end = None \/ call.start <= call.end) )
    => (out2.err = "ok" /\ out2.data = out.data)

\* C8 (as claimed): on a non-empty table, whatever the edge method and
\* clip_window, a None start selects from the first row and a None end through
\* the last row, no get_loc lookup is made for a None bound and nothing is
\* raised (the other bound being None too or an index value of the table).
C8_NoneMeansExtent ==
    ( /\ pc = "done"
      /\ call.op = "df_window"
      /\ call.method \in Methods
      /\ ~Empty(call.df)
      /\ call.start = None \/ call.end = None
      /\ call.start \in IndexSet(call.df) \cup {None}
      /\ call.end \in IndexSet(call.df) \cup {None} )
    => /\ out.err = "ok"
       /\ ~Empty(out.data)
       /\ call.start = None => out.data.rows[1] = call.df.rows[1]
       /\ call.end = None => Last(out.data.rows) = Last(call.df.rows)
       /\ \A b \in Lookups(isFloat, <<call.start, call.end>>, call.method,
                           call.clip_window) :
            <<call.start, call.end>>[b] # None

\* C11: on a non-empty table, with clip_window=True and any edge method, a
\* window lying entirely before the first index value returns exactly the
\* first row and a window lying entirely after the last index value returns
\* exactly the last row; in both cases the result is not empty and holds only
\* rows of the input.
C11_ClipClamps ==
    ( /\ pc = "done"
      /\ call.op = "df_window"
      /\ call.clip_window
      /\ call.method \in Methods
      /\ ~Empty(call.df) )
    => LET first == call.df.rows[1]
           last == Last(call.df.rows)
       IN  /\ (WinStart <= first.t /\ WinEnd <= first.t)
                => out = Ok(Table(call.df.columns, <<first>>))
           /\ (WinStart >= last.t /\ WinEnd >= last.t)
                => out = Ok(Table(call.df.columns, <<last>>))

\* C11's case: both bounds given and strictly before the first of several
\* rows, and the first row alone has been returned
C11_Witness ==
    /\ pc = "done"
    /\ call.op = "df_window"
    /\ call.clip_window
    /\ call.method \in Methods
    /\ Len(call.df.rows) >= 2
    /\ call.start # None
    /\ call.end # None
    /\ call.start < call.df.rows[1].t
    /\ call.end < call.df.rows[1].t
    /\ out = Ok(Table(call.df.columns, <<call.df.rows[1]>>))

\* the rows of a table whose index value lies in [start, end]
RowsWithin(data, start, end) ==
    Table(data.columns, SelectSeq(data.rows, LAMBDA r : start <= r.t /\ r.t <= end))

\* C14 (as claimed): with method='inclusive' and a window start <= end inside
\* the extent of the table, _data_window returns exactly the rows whose index
\* value lies in [start, end], and the Float64Index fast path and the get_loc
\* path return the same rows for the same index values.
C14_InclusivePathsAgree ==
    ( /\ pc = "done"
      /\ call.op = "df_window"
      /\ call.method = "inclusive"
      /\ ~Empty(call.df)
      /\ call.start # None
      /\ call.end # None
      /\ call.df.rows[1].t <= call.start
      /\ call.start <= call.end
      /\ call.end <= Last(call.df.rows).t )
    => /\ out = Ok(RowsWithin(call.df, call.start, call.end))
       /\ out = _data_window(call.df, ~isFloat, <<call.start, call.end>>,
                             call.method, call.clip_window)

\* C17 (as claimed): on a non-empty table, for every window start <= end,
\* method='exclusive' returns exactly the rows whose index value lies in
\* [start, end] (a start matching no index value resolving to the next one, an
\* end to the previous one), an empty table when there is none.
C17_Exclusive ==
    ( /\ pc = "done"
      /\ call.op = "df_window"
      /\ call.method = "exclusive"
      /\ ~Empty(call.df)
      /\ call.start # None
      /\ call.end # None
      /\ call.start <= call.end )
    => out = Ok(RowsWithin(call.df, call.start, call.end))

\* C17 (amended): the same, for the windows that reach into the extent of the
\* table: start <= last index value and end >= first index value.
C17_ExclusiveInExtent ==
    ( /\ pc = "done"
      /\ call.op = "df_window"
      /\ call.method = "exclusive"
      /\ ~Empty(call.df)
      /\ call.start # None
      /\ call.end # None
      /\ call.start <= call.end
      /\ call.start <= Last(call.df.rows).t
      /\ call.end >= call.df.rows[1].t )
    => out = Ok(RowsWithin(call.df, call.start, call.end))

\* C17's case: both bounds fall between rows and a row lies between them
C17_Witness ==
    /\ pc = "done"
    /\ call.op = "df_window"
    /\ call.method = "exclusive"
    /\ ~Empty(call.df)
    /\ call.start # None
    /\ call.end # None
    /\ call.start \notin IndexSet(call.df)
    /\ call.end \notin IndexSet(call.df)
    /\ call.df.rows[1].t < call.start
    /\ call.end < Last(call.df.rows).t
    /\ out.err = "ok"
    /\ ~Empty(out.data)

(***************************************************************************)
(* df_squash                                                               *)
(***************************************************************************)
\* line 199: the duration of the row pushed to start
HeadDelta_IgnoreNext(e1, start, end) == end - start
HeadDelta(e1, start, end) == Min(e1 - start, end - start)

\* line 208: the duration of the last row, cut at end
TailDelta_NoCap(end, t, delta) == delta
TailDelta(end, t, delta) == Min(end - t, delta)

\* line 205: res_df.drop([end])
DropLabel_Keep(rows, label) == rows
DropLabel(rows, label) == SelectSeq(rows, LAMBDA r : r.t # label)

\* lines 187-199: the closest previous event, moved to start
SquashHead(data, start, end, column) ==
    LET prev_df == FloatSlice(data, None, start)
        middle_df == FloatSlice(data, start, end)
        e1 == IF ~Empty(middle_df) THEN middle_df.rows[1].t ELSE end
    IN  IF ~Empty(prev_df) /\ start \notin IndexSet(middle_df)
        THEN <<[t |-> start,
                v |-> [Last(prev_df.rows).v EXCEPT ![column] = HeadDelta(e1, start, end)]]>>
        ELSE <<>>

\* lines 201-209: the rows of the window appended, the last one fixed
SquashTail(res, middle, end, column) ==
    IF middle = <<>> THEN res
    ELSE LET rows == res \o middle
             n == Len(rows)
         IN  IF \E i \in 1..n : rows[i].t = end
             THEN DropLabel(rows, end)
             ELSE [rows EXCEPT ![n].v[column] = TailDelta(end, rows[n].t, rows[n].v[column])]

\* df_squash(df, start, end, column) on a table with a Float64Index
df_squash(data, start, end0, column) ==
    IF Empty(data) THEN Ok(data)
    ELSE IF ~HasColumn(data, column) THEN Raise("KeyError")
    ELSE LET end == Min(end0, Last(data.rows).t + Last(data.rows).v[column])
         IN  IF start > end THEN Ok(Table(data.columns, <<>>))
             ELSE Ok(Table(data.columns,
                           SquashTail(SquashHead(data, start, end, column),
                                      FloatSlice(data, start, end).rows, end, column)))

(***************************************************************************)
(* Squash specification                                                    *)
(***************************************************************************)
\* a table of durations over index s: row i lasts until row i + 1 (gap-free),
\* the last row lasts `last`; the state alternates from s0
GapFreeTable(s, s0, last) ==
    Table(<<"len", "state">>,
          [i \in 1..Len(s) |->
              [t |-> s[i],
               v |-> [len |-> IF i < Len(s) THEN s[i + 1] - s[i] ELSE last,
                      state |-> (s0 + i - 1) % (MaxState + 1)]]])

\* a table of sparse events, each lasting one unit
UnitTable(s, s0) ==
    Table(<<"len", "state">>,
          [i \in 1..Len(s) |->
              [t |-> s[i], v |-> [len |-> 1, state |-> (s0 + i - 1) % (MaxState + 1)]]])

\* the table of df_squash's docstring, lines 135-140, in tenths
DocTable ==
    Table(<<"len", "state">>,
          <<[t |-> 150, v |-> [len |-> 10, state |-> 1]],
            [t |-> 160, v |-> [len |-> 10, state |-> 0]],
            [t |-> 170, v |-> [len |-> 10, state |-> 1]],
            [t |-> 180, v |-> [len |-> 10, state |-> 0]]>>)

\* the bounds of the docstring's two calls, lines 143 and 149, in tenths
DocTimes == {162, 165, 168, 175}

SquashTables ==
    {GapFreeTable(s, s0, last) :
        s \in Indexes(0..MaxTime, MaxRows), s0 \in 0..MaxState, last \in 0..MaxDelta}
    \cup {UnitTable(s, s0) : s \in Indexes(0..MaxTime, MaxRows), s0 \in 0..MaxState}
    \cup {DocTable}

SquashTimes(data) == IF data = DocTable THEN DocTimes ELSE 0..(MaxTime + MaxDelta)

InitSquash ==
    /\ df \in SquashTables
    /\ isFloat = TRUE
    /\ other = NoTable
    /\ drop_columns = <<>>
    /\ call = NoCall
    /\ out = Ok(NoTable)
    /\ out2 = Ok(NoTable)
    /\ pc = "ready"

\* df_squash(df, start, end, column)
squash ==
    /\ pc = "ready"
    /\ \E start \in SquashTimes(df), end \in SquashTimes(df), column \in {"len", "delta"} :
        /\ call' = [op |-> "df_squash", df |-> df, start |-> start, end |-> end,
                    column |-> column]
        /\ out' = df_squash(df, start, end, column)
    /\ pc' = "done"
    /\ UNCHANGED <<df, isFloat, other, drop_columns, out2>>

\* the same window squashed in two pieces, [start, at] and [at, end]
squash_split ==
    /\ pc = "done"
    /\ call.op = "df_squash"
    /\ out.err = "ok"
    /\ \E at \in SquashTimes(df) :
        /\ call.start <= at
        /\ at <= call.end
        /\ out2' = [at |-> at,
                    left |-> df_squash(df, call.start, at, call.column),
                    right |-> df_squash(df, at, call.end, call.column)]
    /\ pc' = "redone"
    /\ UNCHANGED <<df, isFloat, other, drop_columns, call, out>>

NextSquash == squash \/ squash_split

SpecSquash == InitSquash /\ [][NextSquash]_vars

(***************************************************************************)
(* Claims about df_squash                                                  *)
(***************************************************************************)
\* every row but the last is followed by a row at t + len
GapFree(data) ==
    \A i \in 1..(Len(data.rows) - 1) :
        data.rows[i].t + data.rows[i].v.len = data.rows[i + 1].t

\* start <= end, both inside the temporal extent of the non-empty call.df
InExtent(start, end) ==
    /\ call.df.rows[1].t <= start
    /\ start <= end
    /\ end <= Last(call.df.rows).t + Last(call.df.rows).v.len

Durations(data) == Column(data, "len")

\* C1: on a non-empty gap-free table, for first_index <= start <= end <=
\* last_index + last_delta, the durations of df_squash(df, start, end) sum to
\* end - start.
C1_SquashConservesTime ==
    ( /\ pc = "done"
      /\ call.op = "df_squash"
      /\ call.column = "len"
      /\ ~Empty(call.df)
      /\ GapFree(call.df)
      /\ InExtent(call.start, call.end) )
    => /\ out.err = "ok"
       /\ SumSeq(Durations(out.data)) = call.end - call.start

\* C1's case: a window cutting two different rows of a gap-free table, so that
\* both the pushed first row and the cut last row are in the result
C1_Witness ==
    /\ pc = "done"
    /\ call.op = "df_squash"
    /\ call.column = "len"
    /\ ~Empty(call.df)
    /\ GapFree(call.df)
    /\ InExtent(call.start, call.end)
    /\ call.start \notin IndexSet(call.df)
    /\ call.end \notin IndexSet(call.df)
    /\ Len(out.data.rows) >= 2
    /\ out.data.rows[1].t = call.start

\* C2 (as claimed): on a gap-free table, for A <= B <= C inside its extent, the
\* durations of df_squash(df, A, B) followed by those of df_squash(df, B, C)
\* are the durations of df_squash(df, A, C).
C2_SquashComposes ==
    ( /\ pc = "redone"
      /\ call.op = "df_squash"
      /\ call.column = "len"
      /\ ~Empty(call.df)
      /\ GapFree(call.df)
      /\ InExtent(call.start, call.end) )
    => /\ out2.left.err = "ok"
       /\ out2.right.err = "ok"
       /\ Durations(out2.left.data) \o Durations(out2.right.data) = Durations(out.data)

\* C2 (amended): the same, for every split point B that is the index value of
\* a row of the table.
C2_SquashComposesAtRows ==
    ( /\ pc = "redone"
      /\ call.op = "df_squash"
      /\ call.column = "len"
      /\ ~Empty(call.df)
      /\ GapFree(call.df)
      /\ InExtent(call.start, call.end)
      /\ out2.at \in IndexSet(call.df) )
    => /\ out2.left.err = "ok"
       /\ out2.right.err = "ok"
       /\ Durations(out2.left.data) \o Durations(out2.right.data) = Durations(out.data)

\* C2's case: a window split at a row strictly inside it, both pieces non-empty
C2_Witness ==
    /\ pc = "redone"
    /\ call.op = "df_squash"
    /\ call.column = "len"
    /\ ~Empty(call.df)
    /\ GapFree(call.df)
    /\ InExtent(call.start, call.end)
    /\ out2.at \in IndexSet(call.df)
    /\ call.start < out2.at
    /\ out2.at < call.end
    /\ call.start \notin IndexSet(call.df)
    /\ ~Empty(out2.left.data)
    /\ ~Empty(out2.right.data)

\* C10: on the docstring's table (15,1,1), (16,1,0), (17,1,1), (18,1,0),
\* df_squash(df, 16.5, 17.5, column='len') is [(16.5, 0.5, 0), (17, 0.5, 1)]
\* and df_squash(df, 16.2, 16.8, column='len') is [(16.2, 0.6, 0)].
C10_SquashDocExample ==
    ( /\ pc = "done"
      /\ call.op = "df_squash"
      /\ call.df = DocTable
      /\ call.column = "len" )
    => /\ (call.start = 165 /\ call.end = 175) =>
            out = Ok(Table(<<"len", "state">>,
                           <<[t |-> 165, v |-> [len |-> 5, state |-> 0]],
                             [t |-> 170, v |-> [len |-> 5, state |-> 1]]>>))
       /\ (call.start = 162 /\ call.end = 168) =>
            out = Ok(Table(<<"len", "state">>,
                           <<[t |-> 162, v |-> [len |-> 6, state |-> 0]]>>))

\* C10's case: the docstring's first call has returned
C10_Witness ==
    /\ pc = "done"
    /\ call.op = "df_squash"
    /\ call.df = DocTable
    /\ call.column = "len"
    /\ call.start = 165
    /\ call.end = 175
    /\ out.err = "ok"

\* line 159: the end of the call, clamped to the end of the last row
ClampedEnd == Min(call.end, Last(call.df.rows).t + Last(call.df.rows).v.len)

\* the row of the table at index value t
RowAt(data, t) == data.rows[CHOOSE i \in 1..Len(data.rows) : data.rows[i].t = t]

\* the last row of the table strictly before index value t
RowBeforeTime(data, t) ==
    data.rows[SetMax({i \in 1..Len(data.rows) : data.rows[i].t < t})]

\* the rows of the result carried through from the table (not the row made at
\* start from the previous event)
Carried(res) == SelectSeq(res.rows, LAMBDA r : r.t \in IndexSet(call.df))

\* the duration, in the table, of the event a row r of the result stands for
OriginalDuration(r) ==
    IF r.t \in IndexSet(call.df) THEN RowAt(call.df, r.t).v.len
    ELSE RowBeforeTime(call.df, r.t).v.len

\* the rows of the table in [start, end), as they are in the table
Inside(end) ==
    SelectSeq(call.df.rows, LAMBDA r : call.start <= r.t /\ r.t < end)

NextAfter(start, end) ==
    LET later == {t \in IndexSet(call.df) : t > start}
    IN  IF later = {} THEN end ELSE SetMin(later)

\* the result begins with a row made at start from the last row before start
StartsWithPushedRow ==
    /\ ~Empty(out.data)
    /\ out.data.rows[1].t = call.start
    /\ out.data.rows[1].v.state = RowBeforeTime(call.df, call.start).v.state
    /\ out.data.rows[1].v.len = Min(NextAfter(call.start, ClampedEnd) - call.start,
                                    ClampedEnd - call.start)

\* the result begins with the table's own row at start (cut at end if it is
\* the only row) and holds no other row than rows of the table
StartsWithOwnRow ==
    /\ ~Empty(out.data)
    /\ Carried(out.data) = out.data.rows
    /\ out.data.rows[1].t = call.start
    /\ out.data.rows[1].v.state = RowAt(call.df, call.start).v.state
    /\ out.data.rows[1].v.len =
          IF Len(out.data.rows) = 1
          THEN Min(ClampedEnd - call.start, RowAt(call.df, call.start).v.len)
          ELSE RowAt(call.df, call.start).v.len

Truthy(x) == x = "True"

\* line 835: (dedup_data != dedup_data.shift(shift)) at row i, column c; the
\* row shifted in from outside the table is NaN, which differs from anything
Differs_EdgeEqual(rows, i, shift, c) ==
    LET j == i - shift
    IN  j >= 1 /\ j <= Len(rows) /\ rows[i].v[c] # rows[j].v[c]
Differs(rows, i, shift, c) ==
    LET j == i - shift
    IN  j < 1 \/ j > Len(rows) \/ rows[i].v[c] # rows[j].v[c]

\* lines 833-851 without the all_col test of line 843
KeepConsecutive_NoAllCol(data, isDF, shift, considered, all_col) ==
    LET cols == {considered[k] : k \in 1..Len(considered)}
        kept == {i \in 1..Len(data.rows) : \E c \in cols : Differs(data.rows, i, shift, c)}
        pos(k) == CHOOSE i \in kept : Cardinality({j \in kept : j < i}) = k - 1
    IN  Table(data.columns, [k \in 1..Cardinality(kept) |-> data.rows[pos(k)]])

\* lines 833-851: the rows kept when only consecutive duplicates are removed
KeepConsecutive(data, isDF, shift, considered, all_col) ==
    LET cols == {considered[k] : k \in 1..Len(considered)}
        cond(i) ==
            IF ~isDF THEN \A c \in cols : Differs(data.rows, i, shift, c)
            ELSE IF Truthy(all_col) THEN \E c \in cols : Differs(data.rows, i, shift, c)
            ELSE \A c \in cols : Differs(data.rows, i, shift, c)
        kept == {i \in 1..Len(data.rows) : cond(i)}
        pos(k) == CHOOSE i \in kept : Cardinality({j \in kept : j < i}) = k - 1
    IN  Table(data.columns, [k \in 1..Cardinality(kept) |-> data.rows[pos(k)]])

\* data.drop_duplicates(keep=keep, subset=cols)
drop_duplicates(data, keep, considered) ==
    LET cols == {considered[k] : k \in 1..Len(considered)}
        same(i, j) == \A c \in cols : data.rows[i].v[c] = data.rows[j].v[c]
        n == Len(data.rows)
        kept == {i \in 1..n :
                    IF keep = "first" THEN \A j \in 1..(i - 1) : ~same(i, j)
                    ELSE \A j \in (i + 1)..n : ~same(i, j)}
        pos(k) == CHOOSE i \in kept : Cardinality({j \in kept : j < i}) = k - 1
    IN  Table(data.columns, [k \in 1..Cardinality(kept) |-> data.rows[pos(k)]])

\* _data_deduplicate(data, keep, consecutives, cols, all_col); cols is <<>>
\* for None, isDF tells a DataFrame from a Series
_data_deduplicate(data, isDF, keep, consecutives, cols, all_col) ==
    LET considered == IF cols # <<>> THEN cols ELSE data.columns
        missing == \E k \in 1..Len(considered) : ~HasColumn(data, considered[k])
    IN  IF keep \notin {"first", "last"} THEN Raise("ValueError")
        ELSE IF consecutives
        THEN IF missing THEN Raise("KeyError")
             ELSE Ok(KeepConsecutive(data, isDF, IF keep = "first" THEN 1 ELSE -1,
                                     considered, all_col))
        ELSE IF ~Truthy(all_col) THEN Raise("ValueError")
        ELSE IF missing THEN Raise("KeyError")
        ELSE Ok(drop_duplicates(data, keep, considered))

(***************************************************************************)
(* Deduplication specification                                             *)
(***************************************************************************)
\* the Series made of one column of a table
SeriesOf(data, c) ==
    Table(<<c>>, [i \in 1..Len(data.rows) |->
                    [t |-> data.rows[i].t, v |-> [x \in {c} |-> data.rows[i].v[c]]]])

\* the series of series_deduplicate's docstring, line 871
DedupDocTable ==
    LET index == <<1, 2, 20, 30, 40, 50>>
        values == <<1, 2, 2, 3, 4, 2>>
    IN  Table(<<"len", "state">>,
              [i \in 1..6 |-> [t |-> index[i], v |-> [len |-> 1, state |-> values[i]]]])

DedupTables ==
    {Table(<<"len", "state">>,
           [i \in 1..Len(l) |-> [t |-> i - 1, v |-> [len |-> l[i], state |-> st[i]]]]) :
        <<l, st>> \in UNION {[1..k -> 1..MaxDelta] \X [1..k -> 0..MaxState] : k \in 0..MaxRows}}
    \cup {DedupDocTable}

KeepArgs == {"first", "last", "bogus"}
ColsArgs == {<<>>, <<"state">>, <<"len">>, <<"len", "state">>, <<"bogus">>}

InitDedup ==
    /\ df \in DedupTables
    /\ isFloat = FALSE
    /\ other = NoTable
    /\ drop_columns = <<>>
    /\ call = NoCall
    /\ out = Ok(NoTable)
    /\ out2 = Ok(NoTable)
    /\ pc = "ready"

\* series_deduplicate(df['state'], keep, consecutives)
series_deduplicate ==
    /\ pc = "ready"
    /\ \E keep \in KeepArgs, consecutives \in BOOLEAN :
        /\ call' = [op |-> "series_deduplicate", df |-> SeriesOf(df, "state"),
                    keep |-> keep, consecutives |-> consecutives,
                    cols |-> <<>>, all_col |-> "None"]
        /\ out' = _data_deduplicate(SeriesOf(df, "state"), FALSE, keep, consecutives,
                                    <<>>, "None")
    /\ pc' = "done"
    /\ UNCHANGED <<df, isFloat, other, drop_columns, out2>>

\* df_deduplicate(df, keep, consecutives, cols, all_col)
df_deduplicate ==
    /\ pc = "ready"
    /\ \E keep \in KeepArgs, consecutives \in BOOLEAN, cols \in ColsArgs,
          all_col \in {"True", "False"} :
        /\ call' = [op |-> "df_deduplicate", df |-> df, keep |-> keep,
                    consecutives |-> consecutives, cols |-> cols, all_col |-> all_col]
        /\ out' = _data_deduplicate(df, TRUE, keep, consecutives, cols, all_col)
    /\ pc' = "done"
    /\ UNCHANGED <<df, isFloat, other, drop_columns, out2>>

\* df_deduplicate applied again to the table it returned, with the same
\* arguments
df_deduplicate_again ==
    /\ pc = "done"
    /\ call.op = "df_deduplicate"
    /\ out.err = "ok"
    /\ out2' = _data_deduplicate(out.data, TRUE, call.keep, call.consecutives,
                                 call.cols, call.all_col)
    /\ pc' = "redone"
    /\ UNCHANGED <<df, isFloat, other, drop_columns, call, out>>

NextDedup == series_deduplicate \/ df_deduplicate \/ df_deduplicate_again

SpecDedup == InitDedup /\ [][NextDedup]_vars

(***************************************************************************)
(* Claims about deduplication                                              *)
(***************************************************************************)
\* the rows of a series whose value occurs in no earlier row
FirstOccurrences(data, c) ==
    SelectSeq(data.rows,
              LAMBDA r : \A i \in 1..Len(data.rows) :
                            data.rows[i].t < r.t => data.rows[i].v[c] # r.v[c])

\* C4 (as claimed): series_deduplicate(s, keep='first', consecutives=False)
\* does not fail and returns s without the later occurrences of each value;
\* for the values [1,2,2,3,4,2] it returns [1,2,3,4].
C4_GlobalSeriesDedup ==
    ( /\ pc = "done"
      /\ call.op = "series_deduplicate"
      /\ call.keep = "first"
      /\ ~call.consecutives
      /\ ~Empty(call.df) )
    => /\ out.err = "ok"
       /\ out.data.rows = FirstOccurrences(call.df, "state")
       /\ call.df = SeriesOf(DedupDocTable, "state")
            => Column(out.data, "state") = <<1, 2, 3, 4>>

\* positions of the rows that begin (keep = "first") or end (keep = "last") a
\* maximal run of adjacent rows with equal values in column c
RunEdges(data, keep, c) ==
    LET n == Len(data.rows)
    IN  {i \in 1..n :
            IF keep = "first" THEN i = 1 \/ data.rows[i].v[c] # data.rows[i - 1].v[c]
            ELSE i = n \/ data.rows[i].v[c] # data.rows[i + 1].v[c]}

\* res holds exactly the rows of data at the positions of S, in data's order
IsSelection(res, data, S) ==
    /\ res.columns = data.columns
    /\ Len(res.rows) = Cardinality(S)
    /\ \A k \in 1..(Len(res.rows) - 1) : res.rows[k].t < res.rows[k + 1].t
    /\ {res.rows[k] : k \in 1..Len(res.rows)} = {data.rows[i] : i \in S}

\* C12: series_deduplicate with consecutives=True keeps exactly one row of
\* each maximal run of adjacent equal values, the first row of the run for
\* keep='first' and the last for keep='last', so a value that comes back later
\* is kept again: the values [1,2,2,3,4,2] with keep='first' give [1,2,3,4,2].
C12_RunLengthDedup ==
    ( /\ pc = "done"
      /\ call.op = "series_deduplicate"
      /\ call.keep \in {"first", "last"}
      /\ call.consecutives )
    => /\ out.err = "ok"
       /\ IsSelection(out.data, call.df, RunEdges(call.df, call.keep, "state"))
       /\ (call.df = SeriesOf(DedupDocTable, "state") /\ call.keep = "first")
            => Column(out.data, "state") = <<1, 2, 3, 4, 2>>

\* C12's case: the docstring's series, deduplicated with keep='first': a run
\* of two rows lost its second row and the later 2 is still there
C12_Witness ==
    /\ pc = "done"
    /\ call.op = "series_deduplicate"
    /\ call.keep = "first"
    /\ call.consecutives
    /\ call.df = SeriesOf(DedupDocTable, "state")
    /\ Index(out.data) = <<1, 2, 30, 40, 50>>

\* the columns a call of df_deduplicate looks at
Considered ==
    IF call.cols # <<>> THEN {call.cols[k] : k \in 1..Len(call.cols)}
    ELSE {call.df.columns[k] : k \in 1..Len(call.df.columns)}

\* positions of the rows that have no adjacent row to compare with, or are not
\* duplicates of it under the all_col policy of the call; the adjacent row is
\* the previous one for keep = "first", the next one for keep = "last"
NotDuplicated ==
    LET rows == call.df.rows
        adj(i) == IF call.keep = "first" THEN i - 1 ELSE i + 1
        equal(i, c) == rows[i].v[c] = rows[adj(i)].v[c]
        removed(i) ==
            /\ adj(i) \in 1..Len(rows)
            /\ IF call.all_col = "True" THEN \A c \in Considered : equal(i, c)
               ELSE \E c \in Considered : equal(i, c)
    IN  {i \in 1..Len(rows) : ~removed(i)}

\* C19: df_deduplicate with consecutives=True removes a row exactly when, with
\* all_col=True, every considered column equals the adjacent row's value and,
\* with all_col=False, at least one does (adjacent: the previous row for
\* keep='first', the next row for keep='last'); the first row (keep='first') or
\* the last row (keep='last') is never removed.
C19_AllColPolicy ==
    ( /\ pc = "done"
      /\ call.op = "df_deduplicate"
      /\ call.keep \in {"first", "last"}
      /\ call.consecutives
      /\ \A c \in Considered : HasColumn(call.df, c) )
    => /\ out.err = "ok"
       /\ IsSelection(out.data, call.df, NotDuplicated)
       /\ ~Empty(call.df) =>
            /\ call.keep = "first" => out.data.rows[1] = call.df.rows[1]
            /\ call.keep = "last" => Last(out.data.rows) = Last(call.df.rows)

\* C19's case: with all_col=False and both columns considered, a row was
\* removed that repeats one column only (all_col=True keeps it)
C19_Witness ==
    /\ pc = "done"
    /\ call.op = "df_deduplicate"
    /\ call.keep \in {"first", "last"}
    /\ call.consecutives
    /\ call.all_col = "False"
    /\ call.cols = <<>>
    /\ out.err = "ok"
    /\ Len(out.data.rows) < Len(KeepConsecutive(call.df, TRUE,
                                                 IF call.keep = "first" THEN 1 ELSE -1,
                                                 call.df.columns, "True").rows)

\* C22 (as claimed): for every table, keep, all_col and list of columns,
\* df_deduplicate with consecutives=True applied to its own result returns
\* that result unchanged.
C22_DedupIdempotent ==
    ( /\ pc = "redone"
      /\ call.op = "df_deduplicate"
      /\ call.keep \in {"first", "last"}
      /\ call.consecutives )
    => out2 = out

\* C22 (amended): the same, for all_col=True.
C22_DedupIdempotentAllCol ==
    ( /\ pc = "redone"
      /\ call.op = "df_deduplicate"
      /\ call.keep \in {"first", "last"}
      /\ call.consecutives
      /\ call.all_col = "True" )
    => out2 = out

\* C22's case: with all_col=True a call removed rows and left two or more,
\* and the same call on its result has returned
C22_Witness ==
    /\ pc = "redone"
    /\ call.op = "df_deduplicate"
    /\ call.keep \in {"first", "last"}
    /\ call.consecutives
    /\ call.all_col = "True"
    /\ Len(out.data.rows) < Len(call.df.rows)
    /\ Len(out.data.rows) >= 2
    /\ out2.err = "ok"

(***************************************************************************)
(* series_align_signal                                                     *)
(***************************************************************************)
\* a missing value (NaN), in a series or as the period of a one-row series
NaN == -1

\* line 658: the smallest spacing of the index, NaN when there is none
get_period(series) ==
    IF Len(series.rows) < 2 THEN NaN
    ELSE SetMin({series.rows[i + 1].t - series.rows[i].t : i \in 1..(Len(series.rows) - 1)})

\* Python's min(a, b): b when b < a, else a; every comparison with NaN is false
PyMin(a, b) == IF a # NaN /\ b # NaN /\ b < a THEN b ELSE a

\* math.ceil(a / b) for b > 0
Ceil(a, b) == -((-a) \div b)

\* series.reindex(linspace(start, end, num), method='ffill'): the value at grid
\* point i (from 0), i.e. at start + i * (end - start) / (num - 1)
Resample(series, start, end, num) ==
    [k \in 1..num |->
        LET before == {j \in 1..Len(series.rows) :
                          IF num = 1 THEN series.rows[j].t <= start
                          ELSE series.rows[j].t * (num - 1)
                                  <= start * (num - 1) + (k - 1) * (end - start)}
        IN  IF before = {} THEN NaN ELSE series.rows[SetMax(before)].v.state]

\* scipy.signal.correlate(a, r) (mode 'full'), entry k of 0..2n-2
Correlation(a, r, k) ==
    LET n == Len(a)
        terms == [l \in 1..n |->
                    LET m == l - k + n - 1
                    IN  IF m >= 1 /\ m <= n THEN a[l] * r[m] ELSE 0]
    IN  SumSeq(terms)

\* correlation.argmax(): the first position of the maximum
ArgMax(a, r) ==
    LET n == Len(a)
        best == SetMax({Correlation(a, r, k) : k \in 0..(2 * n - 2)})
    IN  SetMin({k \in 0..(2 * n - 2) : Correlation(a, r, k) = best})

\* line 678: max_shift as a number of samples of the resampled signal
MaxShiftSamples(max_shift, period) == max_shift \div period

\* lines 674-684: the shift after the cap
CapShift(shift, max_shift, period) ==
    IF max_shift = None THEN shift
    ELSE LET samples == MaxShiftSamples(max_shift, period)
             signed == IF shift < 0 THEN -samples ELSE samples
         IN  IF Abs(shift) > Abs(signed) THEN signed ELSE shift

\* series.shift(-shift)
ShiftBy(a, shift) ==
    [k \in 1..Len(a) |-> IF k + shift >= 1 /\ k + shift <= Len(a) THEN a[k + shift] ELSE NaN]

HasNaN(series) == \E i \in 1..Len(series.rows) : series.rows[i].v.state = NaN

\* series_align_signal(ref, to_align, max_shift) on non-empty series; besides
\* the two returned series the result records the grid and the shifts computed
series_align_signal(ref, to_align, max_shift) ==
    IF HasNaN(ref) \/ HasNaN(to_align) THEN Raise("ValueError")
    ELSE LET start == Max(ref.rows[1].t, to_align.rows[1].t)
             end == Min(Last(ref.rows).t, Last(to_align.rows).t)
             period == PyMin(get_period(ref), get_period(to_align))
         IN  IF period = NaN THEN Raise("ValueError")
             ELSE LET num == Ceil(end - start, period)
                  IN  IF num <= 0 THEN Raise("ValueError")
                      ELSE LET a == Resample(to_align, start, end, num)
                               r == Resample(ref, start, end, num)
                               raw == ArgMax(a, r) - Len(a)
                               shift == CapShift(raw, max_shift, period)
                           IN  IF max_shift # None /\ max_shift < 0
                               THEN Raise("AssertionError")
                               ELSE [err |-> "ok", ref |-> r, to_align |-> ShiftBy(a, shift),
                                     start |-> start, end |-> end, num |-> num,
                                     period |-> period, raw_shift |-> raw, shift |-> shift]

(***************************************************************************)
(* Alignment specification                                                 *)
(***************************************************************************)
MaxAlignTime == 3
MaxAlignRows == 3
MaxShift == 2

\* non-empty two-valued signals
AlignSeries ==
    {Table(<<"state">>, [i \in 1..Len(s) |-> [t |-> s[i], v |-> [state |-> x[i]]]]) :
        <<s, x>> \in UNION {[1..k -> 0..MaxAlignTime] \X [1..k -> {0, 1}] : k \in 1..MaxAlignRows}}

MonotonicSeries == {a \in AlignSeries : \A i \in 1..(Len(a.rows) - 1) : a.rows[i].t < a.rows[i + 1].t}

\* a signal with a missing value
NaNSeries ==
    Table(<<"state">>, <<[t |-> 0, v |-> [state |-> NaN]], [t |-> 1, v |-> [state |-> 1]]>>)

InitAlign ==
    /\ df \in MonotonicSeries
    /\ isFloat = TRUE
    /\ other = NoTable
    /\ drop_columns = <<>>
    /\ call = NoCall
    /\ out = Ok(NoTable)
    /\ out2 = Ok(NoTable)
    /\ pc = "ready"

\* series_align_signal(df, to_align, max_shift)
align ==
    /\ pc = "ready"
    /\ \E to_align \in MonotonicSeries \cup {NaNSeries}, max_shift \in {None} \cup -1..MaxShift :
        /\ call' = [op |-> "series_align_signal", ref |-> df, to_align |-> to_align,
                    max_shift |-> max_shift]
        /\ out' = series_align_signal(df, to_align, max_shift)
    /\ pc' = "done"
    /\ UNCHANGED <<df, isFloat, other, drop_columns, out2>>

NextAlign == align

SpecAlign == InitAlign /\ [][NextAlign]_vars

(***************************************************************************)
(* Claims about alignment                                                  *)
(***************************************************************************)
\* C7 (as claimed): with max_shift >= 0 the applied shift, in index units of
\* the resampled grid (samples times the spacing (end - start) / (num - 1) of
\* linspace(start, end, num)), is at most max_shift in magnitude, and a capped
\* shift does not have the opposite sign of the uncapped one.
C7_ShiftBounded ==
    ( /\ pc = "done"
      /\ call.op = "series_align_signal"
      /\ out.err = "ok"
      /\ call.max_shift # None
      /\ call.max_shift >= 0
      /\ out.num >= 2 )
    => /\ Abs(out.shift) * (out.end - out.start) <= call.max_shift * (out.num - 1)
       /\ out.shift * out.raw_shift >= 0

\* the correlation of a with r has its maximum at one position only
UniqueMax(a, r) ==
    LET n == Len(a)
        best == SetMax({Correlation(a, r, k) : k \in 0..(2 * n - 2)})
    IN  Cardinality({k \in 0..(2 * n - 2) : Correlation(a, r, k) = best}) = 1

\* C23 (as claimed): for a signal s without missing values whose correlation
\* with itself has a unique maximum, series_align_signal(s, s) computes a
\* shift of zero samples and returns a to_align equal to the returned ref, row
\* for row.
C23_SelfAlignIdentity ==
    ( /\ pc = "done"
      /\ call.op = "series_align_signal"
      /\ call.to_align = call.ref
      /\ call.max_shift = None
      /\ out.err = "ok"
      /\ UniqueMax(out.ref, out.ref) )
    => /\ out.raw_shift = 0
       /\ out.shift = 0
       /\ out.to_align = out.ref

(***************************************************************************)
(* df_filter and df_merge                                                  *)
(* A filter_columns dict is a sequence of <<column, value>> pairs; a None  *)
(* or empty drop_columns / filter_columns argument is the empty sequence   *)
(* (the code tests both by truth value only).                              *)
(***************************************************************************)
SeqToSet(s) == {s[i] : i \in 1..Len(s)}
Keys(filter_columns) == [i \in 1..Len(filter_columns) |-> filter_columns[i][1]]

\* df_filter(df, filter_columns)
df_filter(data, filter_columns) ==
    IF filter_columns = <<>> THEN Raise("TypeError")
    ELSE IF \E k \in SeqToSet(Keys(filter_columns)) : ~HasColumn(data, k) THEN Raise("KeyError")
    ELSE Ok(Table(data.columns,
                  SelectSeq(data.rows,
                            LAMBDA r : \A i \in 1..Len(filter_columns) :
                                          r.v[filter_columns[i][1]] = filter_columns[i][2])))

\* df.drop(columns=cols)
DropCols(data, cols) ==
    IF \E c \in SeqToSet(cols) : ~HasColumn(data, c) THEN Raise("KeyError")
    ELSE LET keep == SelectSeq(data.columns, LAMBDA c : c \notin SeqToSet(cols))
         IN  Ok(Table(keep,
                      [i \in 1..Len(data.rows) |->
                          [t |-> data.rows[i].t,
                           v |-> [c \in SeqToSet(keep) |-> data.rows[i].v[c]]]]))

\* line 281: pd.merge(df1, df2, left_index=True, right_index=True, how='outer')
merge(df1, df2) ==
    LET both == SeqToSet(df1.columns) \cap SeqToSet(df2.columns)
        lname(c) == IF c \in both THEN c \o "_x" ELSE c
        rname(c) == IF c \in both THEN c \o "_y" ELSE c
        columns == [i \in 1..Len(df1.columns) |-> lname(df1.columns[i])]
                   \o [i \in 1..Len(df2.columns) |-> rname(df2.columns[i])]
        index == IndexSet(df1) \cup IndexSet(df2)
        at(k) == CHOOSE t \in index : Cardinality({u \in index : u < t}) = k - 1
        cell(data, t, c) ==
            IF t \in IndexSet(data)
            THEN (CHOOSE r \in SeqToSet(data.rows) : r.t = t).v[c]
            ELSE NaN
        row(t) ==
            [n \in SeqToSet(columns) |->
                IF \E c \in SeqToSet(df1.columns) : lname(c) = n
                THEN cell(df1, t, CHOOSE c \in SeqToSet(df1.columns) : lname(c) = n)
                ELSE cell(df2, t, CHOOSE c \in SeqToSet(df2.columns) : rname(c) = n)]
    IN  Table(columns, [k \in 1..Cardinality(index) |-> [t |-> at(k), v |-> row(at(k))]])

\* line 283: functools.reduce(merge, df_list) on a non-empty list
RECURSIVE Reduce(_)
Reduce(df_list) ==
    IF Len(df_list) = 1 THEN df_list[1]
    ELSE Reduce(<<merge(df_list[1], df_list[2])>> \o SubSeq(df_list, 3, Len(df_list)))

\* the position of the first failed result of a list, 0 when none failed
FirstError(results) ==
    IF \A i \in 1..Len(results) : results[i].err = "ok" THEN 0
    ELSE SetMin({i \in 1..Len(results) : results[i].err # "ok"})

\* line 264: drop_columns.extend(filter_columns.keys())
Extend(list, filter_columns) == list \o Keys(filter_columns)

\* df_merge(df_list, drop_columns=list, drop_inplace, filter_columns).  The result
\* records, besides the value returned, the content after the call of the
\* objects passed in: df_list |-> the tables, drop_columns |-> the list.
df_merge(df_list, list, drop_inplace, filter_columns) ==
    LET n == Len(df_list)
        \* line 255: the caller's list itself when it is non-empty, else a new list
        shared == list # <<>>
        filtered == [i \in 1..n |-> df_filter(df_list[i], filter_columns)]
        unchanged == [df_list |-> df_list, drop_columns |-> list]
    IN  IF filter_columns # <<>> /\ FirstError(filtered) # 0
        THEN [err |-> filtered[FirstError(filtered)].err, data |-> NoTable] @@ unchanged
        ELSE LET dfs == IF filter_columns # <<>>
                        THEN [i \in 1..n |-> filtered[i].data] ELSE df_list
                 cols == IF filter_columns # <<>>
                         THEN list \o Keys(filter_columns) ELSE list
                 caller_list == IF filter_columns # <<>> /\ shared
                                THEN Extend(list, filter_columns)
                                ELSE list
                 inplace == drop_inplace /\ filter_columns = <<>>
                 dropped == [i \in 1..n |-> DropCols(dfs[i], cols)]
                 e == FirstError(dropped)
                 \* lines 270-278: tables dropped in place, up to the first failure
                 after == [i \in 1..n |->
                             IF cols # <<>> /\ inplace /\ (e = 0 \/ i < e)
                             THEN dropped[i].data ELSE df_list[i]]
                 merged == IF cols # <<>>
                           THEN [i \in 1..n |-> dropped[i].data] ELSE dfs
             IN  IF cols # <<>> /\ e # 0
                 THEN [err |-> dropped[e].err, data |-> NoTable,
                       df_list |-> after, drop_columns |-> caller_list]
                 ELSE [err |-> "ok", data |-> Reduce(merged),
                       df_list |-> after, drop_columns |-> caller_list]

(***************************************************************************)
(* Merge specification                                                     *)
(***************************************************************************)
MaxMergeTime == 2
MaxMergeRows == 2

MergeTables ==
    {UnitTable(s, s0) : s \in Indexes(0..MaxMergeTime, MaxMergeRows), s0 \in 0..MaxState}

\* a second table with the same columns, and one with a column of its own
OtherTables ==
    {UnitTable(<<1>>, 0),
     Table(<<"state", "cpu">>, <<[t |-> 1, v |-> [state |-> 0, cpu |-> 1]]>>)}

DropArgs == {<<>>, <<"len">>, <<"state">>, <<"cpu">>}
FilterArgs == {<<>>, <<<<"state", 0>>>>, <<<<"state", 1>>>>, <<<<"len", 1>>>>, <<<<"cpu", 1>>>>}

InitMerge ==
    /\ df \in MergeTables
    /\ isFloat = TRUE
    /\ other \in OtherTables
    /\ drop_columns = <<>>
    /\ call = NoCall
    /\ out = Ok(NoTable)
    /\ out2 = Ok(NoTable)
    /\ pc = "ready"

\* df_filter(df, filter_columns)
filter ==
    /\ pc = "ready"
    /\ \E filter_columns \in FilterArgs :
        /\ call' = [op |-> "df_filter", df_list |-> <<df>>, drop_columns |-> <<>>,
                    drop_inplace |-> FALSE, filter_columns |-> filter_columns]
        /\ out' = df_filter(df, filter_columns)
    /\ pc' = "done"
    /\ UNCHANGED <<df, isFloat, other, drop_columns, out2>>

\* df_merge([df] or [df, other], drop_columns, drop_inplace, filter_columns),
\* the caller holding on to the tables and to the drop_columns list
merge_call ==
    /\ pc = "ready"
    /\ \E df_list \in {<<df>>, <<df, other>>}, cols \in DropArgs, drop_inplace \in BOOLEAN,
          filter_columns \in FilterArgs :
        LET res == df_merge(df_list, cols, drop_inplace, filter_columns)
        IN  /\ call' = [op |-> "df_merge", df_list |-> df_list, drop_columns |-> cols,
                        drop_inplace |-> drop_inplace, filter_columns |-> filter_columns]
            /\ out' = [err |-> res.err, data |-> res.data]
            /\ df' = res.df_list[1]
            /\ other' = IF Len(df_list) = 2 THEN res.df_list[2] ELSE other
            /\ drop_columns' = res.drop_columns
    /\ pc' = "done"
    /\ UNCHANGED <<isFloat, out2>>

NextMerge == filter \/ merge_call

SpecMerge == InitMerge /\ [][NextMerge]_vars

(***************************************************************************)
(* Claims about the inputs of a call                                       *)
(***************************************************************************)
\* C9 (as claimed, for the calls that do not ask for drop_inplace): after
\* df_filter or df_merge every table passed in has the index, columns and
\* values it had before the call, and the caller's drop_columns list is
\* unchanged.
C9_InputsUnchanged ==
    ( /\ pc = "done"
      /\ call.op \in {"df_filter", "df_merge"}
      /\ ~call.drop_inplace )
    => /\ df = call.df_list[1]
       /\ Len(call.df_list) = 2 => other = call.df_list[2]
       /\ drop_columns = call.drop_columns

(***************************************************************************)
(* df_split_signals                                                        *)
(***************************************************************************)
\* the values of a row in the identifying columns, in the order of the list
Key(row, signal_cols) == [k \in 1..Len(signal_cols) |-> row.v[signal_cols[k]]]

\* the order of tuples of equal length
LexLess(a, b) ==
    \E k \in 1..Len(a) : a[k] < b[k] /\ \A j \in 1..(k - 1) : a[j] = b[j]

\* the rank of each tuple of S in the order of tuples
LexRank(S) == [a \in S |-> Cardinality({b \in S : LexLess(b, a)})]

\* line 623: key=lambda df: df.index[0]
IndexStart(S) == [d \in S |-> d.rows[1].t]

\* sorted(S, key=key): the elements of S by increasing key, all keys distinct
Sorted(S, key) ==
    [k \in 1..Cardinality(S) |->
        CHOOSE x \in S : Cardinality({y \in S : key[y] < key[x]}) = k - 1]

\* line 79: df.groupby(signal_cols): one (group, signal) per distinct key, in
\* the order of the keys, the rows of a signal in the order of the table
groupby(data, signal_cols) ==
    LET found == {Key(data.rows[i], signal_cols) : i \in 1..Len(data.rows)}
        keys == Sorted(found, LexRank(found))
    IN  [k \in 1..Len(keys) |->
            [group |-> keys[k],
             signal |-> Table(data.columns,
                              SelectSeq(data.rows,
                                        LAMBDA r : Key(r, signal_cols) = keys[k]))]]

\* lines 82-85: the identification of a signal, column name -> value
ColsVal(signal_cols, group) ==
    [c \in SeqToSet(signal_cols) |->
        group[CHOOSE k \in 1..Len(signal_cols) : signal_cols[k] = c]]

\* lines 87-88: the start an aligned signal is refitted to
AlignTo_OwnStart(data, signal) == signal.rows[1].t
AlignTo(data, signal) == data.rows[1].t

\* list(df_split_signals(df, signal_cols, align_start)): the (cols_val, signal)
\* pairs yielded, or the exception raised while iterating
df_split_signals(data, isF, signal_cols, align_start) ==
    IF signal_cols = <<>>
    THEN [err |-> "ok", signals |-> <<[cols_val |-> <<>>, signal |-> data]>>]
    ELSE IF \E k \in 1..Len(signal_cols) : ~HasColumn(data, signal_cols[k])
    THEN [err |-> "KeyError", signals |-> <<>>]
    ELSE LET groups == groupby(data, signal_cols)
             refit == [k \in 1..Len(groups) |->
                          IF align_start
                          THEN _data_refit_index(groups[k].signal, isF,
                                                 AlignTo(data, groups[k].signal),
                                                 None, "inclusive")
                          ELSE Ok(groups[k].signal)]
             failed == FirstError(refit)
         IN  IF failed # 0 THEN [err |-> refit[failed].err, signals |-> <<>>]
             ELSE [err |-> "ok",
                   signals |-> [k \in 1..Len(groups) |->
                                   [cols_val |-> ColsVal(signal_cols, groups[k].group),
                                    signal |-> refit[k].data]]]

(***************************************************************************)
(* df_window_signals                                                       *)
(***************************************************************************)
\* lines 582-588, for a start that is not None
signal_in_window(signal_df, window) ==
    /\ signal_df.rows[1].t <= window[1]
    /\ window[1] <= Last(signal_df.rows).t

\* line 608: np.nextafter(curr, -inf), the float just below curr; index values
\* are counted in steps of the float spacing
nextafter_Same(curr) == curr
nextafter(curr) == curr - 1

\* lines 605-609: length values going down from start, one step at a time
RECURSIVE smallest_increment(_, _)
smallest_increment(start, length) ==
    IF length = 0 THEN <<>>
    ELSE <<nextafter(start)>> \o smallest_increment(nextafter(start), length - 1)

\* line 612: reversed(index)
reversed(s) == [k \in 1..Len(s) |-> s[Len(s) + 1 - k]]

\* lines 601-616 and 626: the index given to the init rows
make_init_df_index(init_rows, windowed_df, compress_init) ==
    IF compress_init
    THEN reversed(smallest_increment(windowed_df.rows[1].t, Len(init_rows)))
    ELSE [k \in 1..Len(init_rows) |-> init_rows[k].t]

\* a signal that line 596 leaves out of the list
Skipped == [err |-> "skipped", data |-> NoTable]

\* lines 591-597: df_window(signal_df, window, method='pre') for each signal
\* in the window, in the order of the signals
WindowedSignals(signals, isF, window) ==
    [k \in 1..Len(signals) |->
        IF signal_in_window(signals[k].signal, window)
        THEN _data_window(signals[k].signal, isF, window, "pre", TRUE)
        ELSE Skipped]

\* lines 618-627: the first row of each windowed signal, by timestamp,
\* relabelled and put before the windowed table
ConcatInit(columns, win, windowed_df, compress_init) ==
    LET listed == {k \in 1..Len(win) : win[k] # Skipped}
        failed == {k \in listed : win[k].err # "ok"}
        tables == {win[k].data : k \in listed}
        signal_df_list == Sorted(tables, IndexStart(tables))
        init_rows == [k \in 1..Len(signal_df_list) |-> signal_df_list[k].rows[1]]
        index == make_init_df_index(init_rows, windowed_df.data, compress_init)
    IN  IF failed # {} THEN win[SetMin(failed)]
        ELSE IF windowed_df.err # "ok" THEN windowed_df
        ELSE IF \E k \in listed : Empty(win[k].data) THEN Raise("IndexError")
        ELSE IF listed = {} THEN Raise("ValueError")
        ELSE IF compress_init /\ Empty(windowed_df.data) THEN Raise("IndexError")
        ELSE Ok(Table(columns,
                      [k \in 1..Len(init_rows) |-> [init_rows[k] EXCEPT !.t = index[k]]]
                      \o windowed_df.data.rows))

\* df_window_signals(df, window, signal_cols, compress_init); a value is
\* computed once by drawing it from its singleton set
df_window_signals(data, isF, window, signal_cols, compress_init) ==
    CHOOSE res \in
        {IF split.err # "ok" THEN Raise(split.err)
         ELSE IF \E k \in 1..Len(split.signals) : Empty(split.signals[k].signal)
         THEN Raise("IndexError")
         ELSE IF split.signals # <<>> /\ window[1] = None THEN Raise("TypeError")
         ELSE CHOOSE r \in
                {ConcatInit(data.columns, win, windowed_df, compress_init) :
                    win \in {WindowedSignals(split.signals, isF, window)},
                    windowed_df \in {_data_window(data, isF, window, "pre", TRUE)}} : TRUE :
            split \in {df_split_signals(data, isF, signal_cols, FALSE)}} : TRUE

(***************************************************************************)
(* Signals specification: df_split_signals and df_window_signals           *)
(***************************************************************************)
MaxSigTime == 3
MaxSigRows == 3
MaxSignal == 1

\* tables of several signals: every index of at most MaxSigRows values, each
\* row belonging to one of the cpus 0..MaxSignal
SignalTables ==
    {Table(<<"cpu", "state">>,
           [i \in 1..Len(s) |-> [t |-> s[i], v |-> [cpu |-> cpu[i], state |-> i % 2]]]) :
        <<s, cpu>> \in UNION {Indexes(0..MaxSigTime, k) \X [1..k -> 0..MaxSignal] :
                                k \in 0..MaxSigRows}}

SignalCols == {<<>>, <<"cpu">>, <<"cpu", "state">>, <<"bogus">>}
SigBounds == {None} \cup 0..MaxSigTime

InitSignals ==
    /\ df \in SignalTables
    /\ isFloat \in BOOLEAN
    /\ other = NoTable
    /\ drop_columns = <<>>
    /\ call = NoCall
    /\ out = Ok(NoTable)
    /\ out2 = Ok(NoTable)
    /\ pc = "ready"

\* list(df_split_signals(df, signal_cols, align_start)), and the same call
\* with align_start=False for comparison
split_call ==
    /\ pc = "ready"
    /\ \E signal_cols \in SignalCols, align_start \in BOOLEAN :
        /\ call' = [op |-> "df_split_signals", df |-> df, signal_cols |-> signal_cols,
                    align_start |-> align_start]
        /\ out' = df_split_signals(df, isFloat, signal_cols, align_start)
        /\ out2' = df_split_signals(df, isFloat, signal_cols, FALSE)
    /\ pc' = "done"
    /\ UNCHANGED <<df, isFloat, other, drop_columns>>

\* df_window_signals(df, (start, end), signal_cols, compress_init); an index
\* that is not a Float64Index is only windowed without compress_init
window_signals_call ==
    /\ pc = "ready"
    /\ \E start \in SigBounds, end \in SigBounds, signal_cols \in SignalCols,
          compress_init \in (IF isFloat THEN BOOLEAN ELSE {FALSE}) :
        /\ call' = [op |-> "df_window_signals", df |-> df, start |-> start, end |-> end,
                    signal_cols |-> signal_cols, compress_init |-> compress_init]
        /\ out' = df_window_signals(df, isFloat, <<start, end>>, signal_cols, compress_init)
    /\ pc' = "done"
    /\ UNCHANGED <<df, isFloat, other, drop_columns, out2>>

NextSignals == split_call \/ window_signals_call

SpecSignals == InitSignals /\ [][NextSignals]_vars

(***************************************************************************)
(* Claims about multi-signal tables                                        *)
(***************************************************************************)
\* the signals of a table: the sets of rows sharing their identifying values
SignalsOf(data, signal_cols) ==
    {{data.rows[i] : i \in {i \in 1..Len(data.rows) :
                              Key(data.rows[i], signal_cols) = Key(data.rows[j], signal_cols)}} :
        j \in 1..Len(data.rows)}

\* the signals whose first and last timestamps satisfy first <= start <= last
SignalsAt(data, signal_cols, start) ==
    {sig \in SignalsOf(data, signal_cols) :
        /\ \E r \in sig : r.t <= start
        /\ \E r \in sig : start <= r.t}

\* the last row of a signal at or before start
LastKnown(sig, start) ==
    CHOOSE r \in sig : r.t <= start /\ \A q \in sig : q.t <= start => q.t <= r.t

\* the init rows expected for a window starting at start, by timestamp
InitRows(data, signal_cols, start) ==
    LET known == {LastKnown(sig, start) : sig \in SignalsAt(data, signal_cols, start)}
    IN  Sorted(known, [r \in known |-> r.t])

\* C13 (as claimed): on a non-empty multi-signal table and any window with
\* start <= end, df_window_signals raises nothing and returns the table
\* windowed with method 'pre', preceded by one init row for each signal with
\* first <= start <= last, namely that signal's last row at or before start
\* (under the original timestamp unless compress_init), the init rows in
\* ascending order of their original timestamps.
C13_WindowSignals ==
    ( /\ pc = "done"
      /\ call.op = "df_window_signals"
      /\ ~Empty(call.df)
      /\ call.signal_cols \in {<<"cpu">>, <<"cpu", "state">>}
      /\ call.start # None
      /\ call.end # None
      /\ call.start <= call.end )
    => LET pre == _data_window(call.df, isFloat, <<call.start, call.end>>, "pre", TRUE)
           init == InitRows(call.df, call.signal_cols, call.start)
           n == Len(init)
       IN  /\ out.err = "ok"
           /\ pre.err = "ok"
           /\ Len(out.data.rows) = n + Len(pre.data.rows)
           /\ SubSeq(out.data.rows, n + 1, Len(out.data.rows)) = pre.data.rows
           /\ \A k \in 1..n : out.data.rows[k].v = init[k].v
           /\ ~call.compress_init => \A k \in 1..n : out.data.rows[k].t = init[k].t

\* the table windowed with method 'pre' (line 599) for the call made
PreWindowed ==
    _data_window(call.df, isFloat, <<call.start, call.end>>, "pre", TRUE).data

\* the number of init rows at the head of the result
InitCount == Len(out.data.rows) - Len(PreWindowed.rows)

\* C18: when df_window_signals returns with compress_init=True, the index
\* values of the init rows are strictly increasing (hence distinct), all
\* strictly below the first index value of the pre-windowed table, each the
\* immediate predecessor of the next and the last the immediate predecessor of
\* the pre-windowed table's first index value.
C18_CompressedInitIndex ==
    ( /\ pc = "done"
      /\ call.op = "df_window_signals"
      /\ call.compress_init
      /\ out.err = "ok" )
    => LET first == PreWindowed.rows[1].t
           init == [k \in 1..InitCount |-> out.data.rows[k].t]
       IN  /\ InitCount >= 1
           /\ \A k \in 1..(InitCount - 1) : init[k] < init[k + 1]
           /\ \A k \in 1..InitCount : init[k] < first
           /\ \A k \in 1..(InitCount - 1) : init[k] = nextafter(init[k + 1])
           /\ init[InitCount] = nextafter(first)
           /\ SubSeq(out.data.rows, InitCount + 1, Len(out.data.rows)) = PreWindowed.rows

\* C18's case: two signals hold a value at the start of the window, so two
\* init rows have been relabelled
C18_Witness ==
    /\ pc = "done"
    /\ call.op = "df_window_signals"
    /\ call.compress_init
    /\ out.err = "ok"
    /\ InitCount >= 2

\* the set of the rows of a table
RowSet(data) == {data.rows[i] : i \in 1..Len(data.rows)}

\* signal a is signal b with its first index value replaced by start
SameButStart(a, b, start) ==
    /\ a.columns = b.columns
    /\ Len(a.rows) = Len(b.rows)
    /\ \A i \in 1..Len(a.rows) :
        /\ a.rows[i].v = b.rows[i].v
        /\ a.rows[i].t = IF i = 1 THEN start ELSE b.rows[i].t

\* C20: on a non-empty table, df_split_signals with align_start=True yields
\* one sub-table per distinct combination of identifying values, holding the
\* rows of that signal (as many, with the same values, as with
\* align_start=False) and beginning at the first index value of the whole
\* table; with no identifying column it yields the whole table alone.
C20_SplitAligned ==
    ( /\ pc = "done"
      /\ call.op = "df_split_signals"
      /\ call.align_start
      /\ ~Empty(call.df)
      /\ call.signal_cols # <<"bogus">> )
    => /\ out.err = "ok"
       /\ out2.err = "ok"
       /\ Len(out.signals) = Cardinality(SignalsOf(call.df, call.signal_cols))
       /\ Len(out2.signals) = Len(out.signals)
       /\ {RowSet(out2.signals[k].signal) : k \in 1..Len(out2.signals)}
            = SignalsOf(call.df, call.signal_cols)
       /\ \A k \in 1..Len(out.signals) :
            /\ out.signals[k].cols_val = out2.signals[k].cols_val
            /\ \A r \in RowSet(out2.signals[k].signal), c \in SeqToSet(call.signal_cols) :
                    r.v[c] = out.signals[k].cols_val[c]
            /\ SameButStart(out.signals[k].signal, out2.signals[k].signal,
                            call.df.rows[1].t)
       /\ call.signal_cols = <<>> => out.signals[1].signal = call.df

\* C20's case: a signal of two rows or more that starts after the table does
\* has been yielded with the table's first index value
C20_Witness ==
    /\ pc = "done"
    /\ call.op = "df_split_signals"
    /\ call.align_start
    /\ call.signal_cols = <<"cpu">>
    /\ out.err = "ok"
    /\ \E k \in 1..Len(out.signals) :
        /\ Len(out.signals[k].signal.rows) >= 2
        /\ out2.signals[k].signal.rows[1].t > call.df.rows[1].t
        /\ out.signals[k].signal.rows[1].t = call.df.rows[1].t

\* C21 (as claimed): whenever df_window_signals returns, with or without
\* compress_init, for a window start <= end on a table with a strictly
\* increasing index, the index of the result is strictly increasing: sorted,
\* no init row at the timestamp of another init row or of a row of the
\* pre-windowed table.
C21_ResultIndexIncreasing ==
    ( /\ pc = "done"
      /\ call.op = "df_window_signals"
      /\ call.start # None
      /\ call.end # None
      /\ call.start <= call.end
      /\ out.err = "ok" )
    => \A k \in 1..(Len(out.data.rows) - 1) : out.data.rows[k].t < out.data.rows[k + 1].t

====
